---- MODULE Spec2Model ----
(***************************************************************************)
(* Psychrometric chart generator (src/psychrometric_chart.py).             *)
(*                                                                         *)
(* Numbers.  The program computes in IEEE doubles; the model computes in   *)
(* fixed point, rounding toward zero:                                      *)
(*   temperature     multiples of 1/99 degC (np.linspace(0, 50, 100) steps *)
(*                   by 50/99 degC, so its i-th point is exactly 50*i)     *)
(*   relative hum.   thousandths (0.4 is 400); the Humidity column holds   *)
(*                   whole percents                                        *)
(*   pressure        Pa for P and P_ws, mPa for P_w = RH * P_ws            *)
(*   humidity ratio  1e-6 kg/kg for W, so W * 1000 is in 1e-6 g/kg         *)
(***************************************************************************)
EXTENDS Integers, Sequences, FiniteSets, TLC

\* ------------------------------------------------------------------------
\* Bounds of the model
\* ------------------------------------------------------------------------

\* Longest uploaded dataset, in rows.
MaxRows == 2

\* User interactions (upload, remove, toggle, download click) of a user who
\* eventually leaves the page alone.
MaxEvents == 3

\* Script runs since the last user interaction are counted up to this cap.
RunsCap == 3

\* Calls whose arguments and results are kept side by side.
MaxCalls == 2

\* Calls of generate_psychrometric_chart kept side by side.
MaxGens == 3

\* ------------------------------------------------------------------------
\* State
\* ------------------------------------------------------------------------

VARIABLES
    uploaded_file,   \* the file uploader's value: None or Some(table)
    toggle,          \* the "Show Design Zone" widget's value in the browser
    toggle_on_page,  \* whether that widget is on the page for the user to click
    session_state,   \* st.session_state: a function from keys to values
    pc,              \* position of the script: "idle", "main", "file", "toggle"
    fig,             \* main's local fig in the current run: None or Some(figure)
    page,            \* the elements the current run has put on the page
    plotly_chart,    \* the figure st.plotly_chart displays: None or Some(figure)
    download_button, \* the download the page offers: None or Some(record)
    calls,           \* the flag values the current run has passed to
                     \* generate_psychrometric_chart, one per call
    runs,            \* script runs started since the last user interaction
    budget,          \* user interactions left; negative: no limit
    calc_log,        \* direct calls of calc_humidity_ratio: arguments and result
    gen_df,          \* the DataFrame a direct caller of
                     \* generate_psychrometric_chart holds: None or Some(table)
    gen_log,         \* direct calls of generate_psychrometric_chart: the
                     \* arguments, the session flag at the time, the result
    ref              \* history since the uploader last changed: the dataset
                     \* of the calls, the first figure built from it for each
                     \* flag value, and whether later calls with the same
                     \* arguments returned that figure again

vars == <<uploaded_file, toggle, toggle_on_page, session_state, pc, fig, page,
          plotly_chart, download_button, calls, runs, budget, calc_log, gen_df,
          gen_log, ref>>

\* The state of the page and the script.
ui_vars == <<uploaded_file, toggle, toggle_on_page, session_state, pc, fig, page,
             plotly_chart, download_button, calls, runs, budget, ref>>

\* ------------------------------------------------------------------------
\* Fixed-point helpers
\* ------------------------------------------------------------------------

\* t degrees Celsius, in the model's temperature unit.
DegC(t) == 99 * t

\* The fraction n/d in thousandths.
Frac(n, d) == (n * 1000) \div d

Abs(x) == IF x < 0 THEN -x ELSE x

Sign(x) == IF x < 0 THEN -1 ELSE 1

\* One digit of a long multiplication-and-division: from h = <<q, r>> with
\* n * b = q * c + r to the same for 10 * n + d.
LongStep[h \in Nat \X Nat, d \in 0..9, b \in Nat, c \in Nat] ==
    <<h[1] * 10 + (h[2] * 10 + d * b) \div c, (h[2] * 10 + d * b) % c>>

\* <<q, r>> with a * b = q * c + r and 0 <= r < c, for a, b >= 0 and c > 0,
\* by long multiplication over the decimal digits of a (no intermediate
\* value exceeds 10 * c + 9 * b, which keeps 32-bit integers sufficient).
MulDivQR[a \in Nat, b \in Nat, c \in Nat] ==
    IF a = 0 THEN <<0, 0>>
    ELSE LongStep[MulDivQR[a \div 10, b, c], a % 10, b, c]

\* a * b / c for a >= 0 and c # 0, rounded toward zero.
MulDiv(a, b, c) == Sign(b) * Sign(c) * MulDivQR[a, Abs(b), Abs(c)][1]

\* ------------------------------------------------------------------------
\* psychrolib
\* ------------------------------------------------------------------------

\* psy.GetSatVapPres at the 100 points of np.linspace(0, 50, 100), in Pa.
SatVapPresGrid ==
    << 611, 634, 658, 682, 707, 733, 760, 787, 816, 845,
       876, 907, 939, 972, 1007, 1042, 1079, 1116, 1155, 1195,
       1236, 1279, 1322, 1367, 1414, 1462, 1511, 1561, 1613, 1667,
       1722, 1779, 1837, 1897, 1959, 2023, 2088, 2155, 2224, 2295,
       2368, 2443, 2520, 2599, 2681, 2764, 2850, 2938, 3029, 3122,
       3217, 3315, 3416, 3519, 3625, 3734, 3845, 3959, 4077, 4197,
       4320, 4447, 4577, 4710, 4846, 4986, 5129, 5276, 5427, 5581,
       5739, 5901, 6066, 6236, 6410, 6588, 6770, 6957, 7148, 7344,
       7544, 7749, 7959, 8173, 8393, 8617, 8847, 9082, 9322, 9568,
       9820, 10077, 10340, 10608, 10883, 11164, 11451, 11744, 12044, 12350 >>

\* psy.GetSatVapPres at the other temperatures the model uses, in Pa.
SatVapPresOther ==
    [t \in {-40, 10, 14, 15, 20, 22, 25, 30, 35, 60, 100} |->
        CASE t = -40 -> 13
          [] t = 10  -> 1228
          [] t = 14  -> 1599
          [] t = 15  -> 1705
          [] t = 20  -> 2339
          [] t = 22  -> 2645
          [] t = 25  -> 3169
          [] t = 30  -> 4246
          [] t = 35  -> 5628
          [] t = 60  -> 19944
          [] t = 100 -> 101419]

\* psy.GetSatVapPres(T_db): saturation vapour pressure over water or ice, SI
\* units, rounded to whole Pa.
GetSatVapPres(T_db) ==
    IF T_db % 50 = 0 /\ T_db \div 50 \in 0..99
    THEN SatVapPresGrid[T_db \div 50 + 1]
    ELSE SatVapPresOther[T_db \div 99]

\* ------------------------------------------------------------------------
\* calc_humidity_ratio
\* ------------------------------------------------------------------------

\* Mutant: the denominator's operands swapped (P_w - P).
calc_humidity_ratio_swapped(T_db, RH, P) ==
    LET P_ws == GetSatVapPres(T_db)
        P_w  == RH * P_ws
        W    == MulDiv(621945, P_w, P_w - P * 1000)
    IN  W

\* Mutant: the saturation pressure, not the partial pressure, as numerator.
calc_humidity_ratio_sat_numerator(T_db, RH, P) ==
    LET P_ws == GetSatVapPres(T_db)
        P_w  == RH * P_ws
        W    == MulDiv(621945, P_ws * 1000, P * 1000 - P_w)
    IN  W

calc_humidity_ratio(T_db, RH, P) ==
    LET P_ws == GetSatVapPres(T_db)
        P_w  == RH * P_ws
        W    == MulDiv(621945, P_w, P * 1000 - P_w)
    IN  W

\* ------------------------------------------------------------------------
\* generate_psychrometric_chart
\* ------------------------------------------------------------------------

pressure == 101325

T_db_min == 0

T_db_max == 50

\* The list a comprehension builds: its elements, evaluated.
List(f) == SubSeq(f, 1, Len(f))

\* np.linspace(start, stop, num): num evenly spaced points, both ends included.
linspace(start, stop, num) ==
    List([i \in 1..num |-> DegC(start) + ((i - 1) * DegC(stop - start)) \div (num - 1)])

\* Mutant: the end point left out (np.linspace(..., endpoint=False) keeps the
\* step of this chart only if 99 points are asked for).
T_db_open == SubSeq(linspace(T_db_min, T_db_max, 100), 1, 99)

T_db == linspace(T_db_min, T_db_max, 100)

\* Saturation line (RH = 100%), g/kg.
W_sat ==
    List([i \in DOMAIN T_db |-> calc_humidity_ratio(T_db[i], Frac(1, 1), pressure) * 1000])

\* Constant RH lines.
RH_levels == <<Frac(2, 10), Frac(4, 10), Frac(6, 10), Frac(8, 10)>>

W_RH(rh) ==
    List([i \in DOMAIN T_db |-> calc_humidity_ratio(T_db[i], rh, pressure) * 1000])

\* Comfort zone.
T_comfort == <<DegC(14), DegC(22)>>

RH_comfort_low == Frac(4, 10)

RH_comfort_high == Frac(6, 10)

W_comfort_low ==
    List([i \in DOMAIN T_comfort |->
            calc_humidity_ratio(T_comfort[i], RH_comfort_low, pressure) * 1000])

W_comfort_high ==
    List([i \in DOMAIN T_comfort |->
            calc_humidity_ratio(T_comfort[i], RH_comfort_high, pressure) * 1000])

\* RH labels at T = 35 degC.
T_label == 35

W_labels(rh) == calc_humidity_ratio(DegC(T_label), rh, pressure) * 1000

\* int(rh * 100)
Percent(rh) == (rh * 100) \div 1000

annotations ==
    List([k \in DOMAIN RH_levels |->
            [x |-> DegC(T_label),
             y |-> W_labels(RH_levels[k]),
             text |-> ToString(Percent(RH_levels[k])) \o "%"]])

\* One go.Scatter trace.
Scatter(name, mode, xs, ys) == [name |-> name, mode |-> mode, x |-> xs, y |-> ys]

SaturationTrace == Scatter("100% RH (Saturation)", "lines", T_db, W_sat)

RHTraces ==
    List([k \in DOMAIN RH_levels |->
            Scatter(ToString(Percent(RH_levels[k])) \o "% RH", "lines",
                    T_db, W_RH(RH_levels[k]))])

DesignZoneName == "Design Zone (14-22 degC, 40-60% RH)"

\* Mutant: the polygon not closed (the first point not repeated).
DesignZoneTrace_open ==
    Scatter(DesignZoneName, "lines",
            <<DegC(14), DegC(22), DegC(22), DegC(14)>>,
            <<W_comfort_low[1], W_comfort_low[2], W_comfort_high[2],
              W_comfort_high[1]>>)

DesignZoneTrace ==
    Scatter(DesignZoneName, "lines",
            <<DegC(14), DegC(22), DegC(22), DegC(14), DegC(14)>>,
            <<W_comfort_low[1], W_comfort_low[2], W_comfort_high[2],
              W_comfort_high[1], W_comfort_low[1]>>)

Min(a, b) == IF a < b THEN a ELSE b

\* df is a table: a function from column names to columns of equal length.
\* Dry-bulb temperature of the rows.
T_db_room(df) == df["Temperature"]

\* Mutant: the humidity clamped to 0 .. 100 % before the conversion.
RH_room_clamped(df) ==
    List([i \in DOMAIN df["Humidity"] |->
            Frac(IF df["Humidity"][i] > 100 THEN 100
                 ELSE IF df["Humidity"][i] < 0 THEN 0
                 ELSE df["Humidity"][i], 100)])

\* Convert % to decimal.
RH_room(df) == List([i \in DOMAIN df["Humidity"] |-> Frac(df["Humidity"][i], 100)])

\* Room conditions, g/kg: one value per row, as zip pairs them.
W_room(df) ==
    List([i \in 1..Min(Len(T_db_room(df)), Len(RH_room(df))) |->
            calc_humidity_ratio(T_db_room(df)[i], RH_room(df)[i], pressure) * 1000])

RoomTrace(df) == Scatter("Room Conditions", "markers", T_db_room(df), W_room(df))

\* Mutant: with the flag off an empty design-zone trace is added.
generate_empty_zone_when_off(df, show_design_zone) ==
    LET base == <<SaturationTrace>> \o RHTraces \o <<RoomTrace(df)>>
    IN  [data        |-> Append(base, IF show_design_zone THEN DesignZoneTrace
                                      ELSE Scatter(DesignZoneName, "lines", << >>, << >>)),
         annotations |-> annotations]

\* go.Figure(): a new, empty figure.
Figure == [data |-> << >>, annotations |-> << >>]

\* fig.add_trace: the trace is appended to the figure's data.
add_trace(figure, trace) == [figure EXCEPT !.data = Append(@, trace)]

\* fig.add_trace in a loop over traces.
add_traces(figure, traces) == [figure EXCEPT !.data = @ \o traces]

\* fig.update_layout(..., annotations = ...).
update_layout(figure, labels) == [figure EXCEPT !.annotations = labels]

\* Mutant: the design zone follows the session flag, not the parameter.
generate_reads_session_flag(df, show_design_zone) ==
    LET fig0 == Figure
        fig1 == add_trace(fig0, SaturationTrace)
        fig2 == add_traces(fig1, RHTraces)
        fig3 == add_trace(fig2, RoomTrace(df))
        fig4 == IF session_state["show_design_zone"]
                THEN add_trace(fig3, DesignZoneTrace) ELSE fig3
    IN  update_layout(fig4, annotations)

\* The figure, built on a new go.Figure() in every call: its traces in the
\* order added, and its annotations.
generate_psychrometric_chart(df, show_design_zone) ==
    LET fig0 == Figure
        fig1 == add_trace(fig0, SaturationTrace)
        fig2 == add_traces(fig1, RHTraces)
        fig3 == add_trace(fig2, RoomTrace(df))
        fig4 == IF show_design_zone
                THEN add_trace(fig3, DesignZoneTrace) ELSE fig3
    IN  update_layout(fig4, annotations)

\* fig.to_html(): the standalone document that embeds the figure.
to_html(figure) == [doctype |-> "html", figure |-> figure]

\* ------------------------------------------------------------------------
\* The files a user may upload
\* ------------------------------------------------------------------------

\* Rows (Temperature in degC, Humidity in %) of uploaded sheets: an ordinary
\* row, a dry row, and two rows whose humidity lies outside 0..100.
RowValues ==
    { <<25, 50>>, <<20, 0>>, <<30, 150>>, <<15, -10>> }

RowSeqs == UNION { [1..n -> RowValues] : n \in 0..MaxRows }

\* pd.read_excel of a sheet with both required columns.
ValidFiles ==
    { [Temperature |-> [i \in DOMAIN rows |-> DegC(rows[i][1])],
       Humidity    |-> [i \in DOMAIN rows |-> rows[i][2]]] : rows \in RowSeqs }

\* Sheets that lack Humidity, lack Temperature, or lack both.
InvalidFiles ==
    { [Temperature |-> <<DegC(25), DegC(10)>>],
      [Humidity |-> <<50, 80>>],
      [Temp |-> <<DegC(25)>>, RH |-> <<50>>] }

Files == ValidFiles \cup InvalidFiles

\* An optional value: None, or Some(v).
None == << >>

Some(v) == <<v>>

EmptySession == [k \in {} |-> FALSE]

\* The session flag as the script reads it after line 155: off until stored.
Flag(session) ==
    IF "show_design_zone" \in DOMAIN session THEN session["show_design_zone"] ELSE FALSE

NoFigs == [b \in {} |-> None]

NoCalls == [df |-> None, figs |-> NoFigs, repeated |-> FALSE, agree |-> TRUE]

\* The first run of the script in a new session, nothing uploaded yet.
FirstRun ==
    /\ uploaded_file = None
    /\ toggle = FALSE
    /\ toggle_on_page = FALSE
    /\ session_state = EmptySession
    /\ pc = "main"
    /\ fig = None
    /\ page = << >>
    /\ plotly_chart = None
    /\ download_button = None
    /\ calls = << >>
    /\ runs = 1
    /\ ref = NoCalls
    /\ calc_log = {}
    /\ gen_df = None
    /\ gen_log = {}

Init == FirstRun /\ budget = -1

InitBounded == FirstRun /\ budget = MaxEvents

\* ------------------------------------------------------------------------
\* The widget host: a user interaction starts the script from the top
\* ------------------------------------------------------------------------

\* A fresh run of the script: nothing of the run is on the page yet.
StartRun ==
    /\ pc' = "main"
    /\ fig' = None
    /\ page' = << >>
    /\ plotly_chart' = None
    /\ download_button' = None
    /\ calls' = << >>

UserEvent ==
    /\ budget # 0
    /\ budget' = IF budget > 0 THEN budget - 1 ELSE budget
    /\ runs' = 1
    /\ StartRun

Upload(f) ==
    /\ uploaded_file # Some(f)
    /\ uploaded_file' = Some(f)
    /\ ref' = NoCalls
    /\ UserEvent
    /\ UNCHANGED <<calc_log, gen_df, gen_log, toggle, toggle_on_page, session_state>>

RemoveFile ==
    /\ uploaded_file # None
    /\ uploaded_file' = None
    /\ ref' = NoCalls
    /\ UserEvent
    /\ UNCHANGED <<calc_log, gen_df, gen_log, toggle, toggle_on_page, session_state>>

ClickToggle ==
    /\ toggle_on_page
    /\ toggle' = ~toggle
    /\ UserEvent
    /\ UNCHANGED <<calc_log, gen_df, gen_log, uploaded_file, toggle_on_page, session_state, ref>>

ClickDownload ==
    /\ download_button # None
    /\ UserEvent
    /\ UNCHANGED <<calc_log, gen_df, gen_log, uploaded_file, toggle, toggle_on_page, session_state, ref>>

\* ------------------------------------------------------------------------
\* main
\* ------------------------------------------------------------------------

\* Lines 151-155: the title, the uploader, the session flag's default.
MainStart ==
    /\ pc = "main"
    /\ page' = <<"title", "file_uploader">>
    /\ session_state' =
          IF "show_design_zone" \notin DOMAIN session_state
          THEN [k \in {"show_design_zone"} |-> FALSE]
          ELSE session_state
    /\ pc' = "file"
    /\ UNCHANGED <<calc_log, gen_df, gen_log, uploaded_file, toggle, toggle_on_page, fig, plotly_chart,
                   download_button, calls, runs, budget, ref>>

\* The run ends without having shown the toggle: the host may keep the
\* widget's value or forget it (it then starts from its default, off).
ToggleNotRendered ==
    /\ toggle_on_page' = FALSE
    /\ toggle' \in {toggle, FALSE}

\* Lines 156, 181-182: no file yet.
MainNoFile ==
    /\ pc = "file"
    /\ uploaded_file = None
    /\ page' = Append(page, "info")
    /\ pc' = "idle"
    /\ ToggleNotRendered
    /\ UNCHANGED <<calc_log, gen_df, gen_log, uploaded_file, session_state, fig, plotly_chart,
                   download_button, calls, runs, budget, ref>>

\* Mutant: the toggle and the flag update sit outside the column check.
MainMissingColumns_toggle_outside_check ==
    /\ pc = "file"
    /\ uploaded_file # None
    /\ ~("Temperature" \in DOMAIN uploaded_file[1] /\ "Humidity" \in DOMAIN uploaded_file[1])
    /\ page' = page \o <<"error", "toggle">>
    /\ toggle_on_page' = TRUE
    /\ session_state' = [session_state EXCEPT !["show_design_zone"] = toggle]
    /\ pc' = "idle"
    /\ UNCHANGED <<calc_log, gen_df, gen_log, uploaded_file, toggle, fig, plotly_chart,
                   download_button, calls, runs, budget, ref>>

HasRequiredColumns(df) == "Temperature" \in DOMAIN df /\ "Humidity" \in DOMAIN df

\* Lines 156-160, 178-179: a required column is missing.
MainMissingColumns ==
    /\ pc = "file"
    /\ uploaded_file # None
    /\ ~HasRequiredColumns(uploaded_file[1])
    /\ page' = Append(page, "error")
    /\ pc' = "idle"
    /\ ToggleNotRendered
    /\ UNCHANGED <<calc_log, gen_df, gen_log, uploaded_file, session_state, fig, plotly_chart,
                   download_button, calls, runs, budget, ref>>

\* The history of calls: the first figure per flag value built from the
\* dataset; a call that repeats earlier arguments is compared with it.
Record(df, show, figure) ==
    IF ref.df = Some(df) /\ show \in DOMAIN ref.figs
    THEN [ref EXCEPT !.repeated = TRUE,
                     !.agree = ref.agree /\ (figure = ref.figs[show])]
    ELSE [ref EXCEPT !.df = Some(df),
                     !.figs = [b \in DOMAIN ref.figs \cup {show} |->
                                  IF b = show THEN figure ELSE ref.figs[b]]]

\* Lines 156-163: build the chart from the session flag and display it.
MainChart ==
    /\ pc = "file"
    /\ uploaded_file # None
    /\ HasRequiredColumns(uploaded_file[1])
    /\ LET df   == uploaded_file[1]
           show == session_state["show_design_zone"]
           f    == generate_psychrometric_chart(df, show)
       IN  /\ fig' = Some(f)
           /\ plotly_chart' = Some(f)
           /\ calls' = Append(calls, show)
           /\ ref' = Record(df, show, f)
    /\ page' = Append(page, "plotly_chart")
    /\ pc' = "toggle"
    /\ UNCHANGED <<calc_log, gen_df, gen_log, uploaded_file, toggle, toggle_on_page, session_state,
                   download_button, runs, budget>>

\* Mutant: the rerun is requested without storing the toggle's value.
MainRerun_no_store ==
    /\ pc = "toggle"
    /\ toggle # session_state["show_design_zone"]
    /\ toggle_on_page' = TRUE
    /\ runs' = Min(runs + 1, RunsCap)
    /\ StartRun
    /\ UNCHANGED <<calc_log, gen_df, gen_log, uploaded_file, toggle, session_state, budget, ref>>

\* Lines 165-170: the toggle differs from the session flag: store it, rerun.
MainRerun ==
    /\ pc = "toggle"
    /\ toggle # session_state["show_design_zone"]
    /\ toggle_on_page' = TRUE
    /\ session_state' = [session_state EXCEPT !["show_design_zone"] = toggle]
    /\ runs' = Min(runs + 1, RunsCap)
    /\ StartRun
    /\ UNCHANGED <<calc_log, gen_df, gen_log, uploaded_file, toggle, budget, ref>>

\* Mutant: the download button is rendered before the toggle is compared.
MainDownload_before_rerun_check ==
    /\ pc = "toggle"
    /\ toggle_on_page' = TRUE
    /\ page' = page \o <<"toggle", "download_button">>
    /\ download_button' =
          Some([label     |-> "Download Chart as HTML",
                data      |-> to_html(fig[1]),
                file_name |-> "psychrometric_chart.html",
                mime      |-> "text/html"])
    /\ pc' = "idle"
    /\ UNCHANGED <<calc_log, gen_df, gen_log, uploaded_file, toggle, session_state, fig, plotly_chart,
                   calls, runs, budget, ref>>

\* Lines 165-177: the toggle agrees with the session flag: offer the download.
MainDownload ==
    /\ pc = "toggle"
    /\ toggle = session_state["show_design_zone"]
    /\ toggle_on_page' = TRUE
    /\ page' = page \o <<"toggle", "download_button">>
    /\ download_button' =
          Some([label     |-> "Download Chart as HTML",
                data      |-> to_html(fig[1]),
                file_name |-> "psychrometric_chart.html",
                mime      |-> "text/html"])
    /\ pc' = "idle"
    /\ UNCHANGED <<calc_log, gen_df, gen_log, uploaded_file, toggle, session_state, fig, plotly_chart,
                   calls, runs, budget, ref>>

\* ------------------------------------------------------------------------
\* calc_humidity_ratio called on its own
\* ------------------------------------------------------------------------

\* Dry-bulb temperatures: frost, the chart's range, boiling.
CalcTemps == {DegC(-40), DegC(0), DegC(20), DegC(50), DegC(100)}

\* Relative humidities, in thousandths: inside and outside 0 .. 1.
CalcRH == {-200, 0, 200, 500, 800, 1000, 1200}

\* Total pressures, Pa: the chart's, and a mountain site's.
CalcPressures == {pressure, 70000}

Calc(T, RH, P) ==
    /\ Cardinality(calc_log) < MaxCalls
    /\ calc_log' = calc_log \cup
          {[T_db |-> T, RH |-> RH, P |-> P, W |-> calc_humidity_ratio(T, RH, P)]}
    /\ UNCHANGED <<ui_vars, gen_df, gen_log>>

NextCalc == \E T \in CalcTemps, RH \in CalcRH, P \in CalcPressures : Calc(T, RH, P)

CalcSpec == Init /\ [][NextCalc]_vars

\* ------------------------------------------------------------------------
\* generate_psychrometric_chart called on its own
\* ------------------------------------------------------------------------

\* Datasets of a direct caller: an empty sheet, and two sheets of two rows.
GenFiles ==
    { [Temperature |-> << >>, Humidity |-> << >>],
      [Temperature |-> <<DegC(25), DegC(20)>>, Humidity |-> <<50, 0>>],
      [Temperature |-> <<DegC(30), DegC(15)>>, Humidity |-> <<150, -10>>] }

\* Line 158: the caller reads another sheet.
GenLoad(f) ==
    /\ gen_df # Some(f)
    /\ gen_df' = Some(f)
    /\ UNCHANGED <<ui_vars, calc_log, gen_log>>

\* Lines 155, 169: the page stores a value in the session flag.
GenStoreFlag(v) ==
    /\ session_state # [k \in {"show_design_zone"} |-> v]
    /\ session_state' = [k \in {"show_design_zone"} |-> v]
    /\ UNCHANGED <<uploaded_file, toggle, toggle_on_page, pc, fig, page, plotly_chart,
                   download_button, calls, runs, budget, ref, calc_log, gen_df, gen_log>>

\* Lines 21-148: one call on the caller's DataFrame, in a session whose flag
\* exists (line 155 precedes every call); the flag passed need not be the
\* session flag.  The DataFrame is only read (lines 22-23 take
\* its columns, line 23 divides into a new array), the session not at all.
Generate(show_design_zone) ==
    /\ gen_df # None
    /\ "show_design_zone" \in DOMAIN session_state
    /\ Cardinality(gen_log) < MaxGens
    /\ gen_log' = gen_log \cup
          {[df               |-> gen_df[1],
            show_design_zone |-> show_design_zone,
            session          |-> session_state["show_design_zone"],
            fig              |-> generate_psychrometric_chart(gen_df[1], show_design_zone)]}
    /\ UNCHANGED <<ui_vars, calc_log, gen_df>>

NextGen ==
    \/ \E f \in GenFiles : GenLoad(f)
    \/ \E v \in BOOLEAN : GenStoreFlag(v)
    \/ \E show_design_zone \in BOOLEAN : Generate(show_design_zone)

GenSpec == Init /\ [][NextGen]_vars

\* ------------------------------------------------------------------------
\* The program
\* ------------------------------------------------------------------------

Next ==
    \/ \E f \in Files : Upload(f)
    \/ RemoveFile
    \/ ClickToggle
    \/ ClickDownload
    \/ MainStart
    \/ MainNoFile
    \/ MainMissingColumns
    \/ MainChart
    \/ MainRerun
    \/ MainDownload

Spec == Init /\ [][Next]_vars

\* The script runner runs a started script to its end unless a user
\* interaction restarts it; this user interacts at most MaxEvents times.
Script ==
    \/ MainStart
    \/ MainNoFile
    \/ MainMissingColumns
    \/ MainChart
    \/ MainRerun
    \/ MainDownload

FairSpec == InitBounded /\ [][Next]_vars /\ WF_vars(Script)

\* ------------------------------------------------------------------------
\* Properties
\* ------------------------------------------------------------------------

HasDesignZone(figure) ==
    \E k \in DOMAIN figure.data : figure.data[k].name = DesignZoneName

ValidUpload == uploaded_file # None /\ HasRequiredColumns(uploaded_file[1])

InvalidUpload == uploaded_file # None /\ ~HasRequiredColumns(uploaded_file[1])

Names(traces) == [k \in DOMAIN traces |-> traces[k].name]

\* W(T, RH) of the chart, g/kg, T in degC and RH in thousandths.
W(t, rh) == calc_humidity_ratio(DegC(t), rh, 101325) * 1000

\* C1: the charts built from one dataset with the flag on and with the flag
\* off differ by exactly one trace: the chart with the flag on is the chart
\* with the flag off (saturation line, four RH lines, room points, in that
\* order) followed by the design-zone polygon; the chart with the flag off
\* holds no design-zone trace at all; the four RH labels are the same.
C1_ToggleAddsOnlyThePolygon ==
    DOMAIN ref.figs = BOOLEAN =>
        LET on  == ref.figs[TRUE]
            off == ref.figs[FALSE]
        IN  /\ Len(on.data) = Len(off.data) + 1
            /\ SubSeq(on.data, 1, Len(off.data)) = off.data
            /\ on.data[Len(on.data)].name = DesignZoneName
            /\ Len(on.data[Len(on.data)].x) = 5
            /\ Names(off.data) = <<"100% RH (Saturation)", "20% RH", "40% RH",
                                   "60% RH", "80% RH", "Room Conditions">>
            /\ ~HasDesignZone(off)
            /\ Len(on.annotations) = 4
            /\ on.annotations = off.annotations

\* C1 witness: both charts were built from an uploaded dataset with rows.
C1_Witness ==
    /\ DOMAIN ref.figs = BOOLEAN
    /\ ValidUpload
    /\ Len(uploaded_file[1]["Temperature"]) = 2

\* C2, the state part: while a file without both required columns is the
\* upload, the run has not called the chart builder, shows no chart and
\* offers no download; once the run has ended the page holds the error
\* message and no toggle.
C2_NoChartFromInvalidFile ==
    InvalidUpload =>
        /\ calls = << >>
        /\ fig = None
        /\ plotly_chart = None
        /\ download_button = None
        /\ "plotly_chart" \notin {page[k] : k \in DOMAIN page}
        /\ pc = "idle" => /\ page = <<"title", "file_uploader", "error">>
                          /\ ~toggle_on_page

\* C2: a file that lacks Temperature or Humidity gives a validation error
\* and nothing else (the state part above), and no step taken while such a
\* file is the upload changes the session flag the script reads.
C2_MissingColumnShortCircuits ==
    /\ []C2_NoChartFromInvalidFile
    /\ [][(InvalidUpload /\ uploaded_file' = uploaded_file)
            => Flag(session_state') = Flag(session_state)]_vars

\* C2 witness: a run on a file lacking Humidity has ended, with the flag on.
C2_Witness ==
    /\ pc = "idle"
    /\ uploaded_file = Some([Temperature |-> <<DegC(25), DegC(10)>>])
    /\ page = <<"title", "file_uploader", "error">>
    /\ Flag(session_state) = TRUE

\* C3: the room-points trace of a displayed chart has one point per row of
\* the uploaded dataset, in row order: x is the row's Temperature, y is
\* humidityRatio(Temperature, Humidity / 100, 101325) * 1000, whatever the
\* Humidity.
C3_RoomPointsAreTheRows ==
    plotly_chart # None =>
        LET df   == uploaded_file[1]
            n    == Len(df["Temperature"])
            room == plotly_chart[1].data[6]
        IN  /\ room.name = "Room Conditions"
            /\ Len(room.x) = n
            /\ Len(room.y) = n
            /\ \A i \in 1..n :
                  /\ room.x[i] = df["Temperature"][i]
                  /\ room.y[i] =
                        calc_humidity_ratio(df["Temperature"][i],
                                            Frac(df["Humidity"][i], 100),
                                            101325) * 1000

\* C3 witness: a chart of two rows, the first with Humidity above 100 and
\* the second with Humidity below 0.
C3_Witness ==
    /\ plotly_chart # None
    /\ uploaded_file = Some([Temperature |-> <<DegC(30), DegC(15)>>,
                             Humidity |-> <<150, -10>>])

\* C3 witness for n = 0 is the same formula's other case: an empty sheet.
C3_WitnessEmpty ==
    /\ plotly_chart # None
    /\ uploaded_file = Some([Temperature |-> << >>, Humidity |-> << >>])

\* C4: a design-zone polygon in a displayed chart has exactly 5 points, the
\* first equal to the last, and they are (14, W(14, 0.4)), (22, W(22, 0.4)),
\* (22, W(22, 0.6)), (14, W(14, 0.6)), (14, W(14, 0.4)) for every dataset.
C4_DesignZoneIsClosedPolygon ==
    plotly_chart # None =>
        \A k \in DOMAIN plotly_chart[1].data :
            LET t == plotly_chart[1].data[k]
            IN  t.name = DesignZoneName =>
                  /\ Len(t.x) = 5
                  /\ Len(t.y) = 5
                  /\ <<t.x[1], t.y[1]>> = <<t.x[5], t.y[5]>>
                  /\ t.x = <<DegC(14), DegC(22), DegC(22), DegC(14), DegC(14)>>
                  /\ t.y = <<W(14, 400), W(22, 400), W(22, 600), W(14, 600),
                             W(14, 400)>>

\* C4 witness: a chart with the polygon, built from a dataset with rows.
C4_Witness ==
    /\ plotly_chart # None
    /\ HasDesignZone(plotly_chart[1])
    /\ Len(uploaded_file[1]["Temperature"]) = 2

\* The page after a completed run whose chart was built with the flag at v,
\* the toggle and the session flag both at v, and the download offered.
Settled(v) ==
    /\ pc = "idle"
    /\ toggle = v
    /\ Flag(session_state) = v
    /\ calls = <<v>>
    /\ plotly_chart # None
    /\ HasDesignZone(plotly_chart[1]) = v
    /\ download_button # None

\* A completed run; with a valid file uploaded, one settled on the toggle.
Completed == pc = "idle" /\ (ValidUpload => Settled(toggle))

\* C5: at most one rerun is requested per user interaction, and every run
\* the script starts (each toggle change starts one) leads to a completed
\* run which, with a valid file uploaded, built the chart with the flag at
\* the toggle's value, left the session flag at that value and requested no
\* rerun.
C5_ToggleChangeRegenerates ==
    /\ [](runs <= 2)
    /\ (pc # "idle") ~> Completed

\* C5 witness: the toggle was switched on, the script stored it, reran, and
\* the second run completed with the polygon shown.
C5_Witness ==
    /\ Settled(TRUE)
    /\ runs = 2

\* C6 as claimed: for any two relative humidities L1 < L2 at the same
\* temperature and pressure, humidityRatio(T, L1) < humidityRatio(T, L2).
C6_MonotoneInRH_AsClaimed ==
    \A a, b \in calc_log :
        (a.T_db = b.T_db /\ a.P = b.P /\ a.RH < b.RH) => a.W < b.W

\* C6 amended: the same, for levels whose partial vapour pressure
\* L2 * P_ws(T) stays below the total pressure P.
C6_MonotoneInRH_BelowTotalPressure ==
    \A a, b \in calc_log :
        (/\ a.T_db = b.T_db
         /\ a.P = b.P
         /\ a.RH < b.RH
         /\ b.RH * GetSatVapPres(b.T_db) < b.P * 1000) => a.W < b.W

\* C6 witness: two levels at 20 degC, one of them above 100 %.
C6_Witness ==
    \E a, b \in calc_log :
        /\ a.T_db = DegC(20) /\ b.T_db = DegC(20)
        /\ a.P = pressure /\ b.P = pressure
        /\ a.RH = 1000 /\ b.RH = 1200
        /\ a.W < b.W

\* C7: the saturation line of a displayed chart is the first trace, of
\* exactly 100 points; its temperatures start at 0, end at 50 and are evenly
\* spaced and increasing; its y values are humidityRatio(T, 1.0, 101325) *
\* 1000 and increase from each point to the next.
C7_SaturationLine ==
    plotly_chart # None =>
        LET sat == plotly_chart[1].data[1]
        IN  /\ sat.name = "100% RH (Saturation)"
            /\ Len(sat.x) = 100
            /\ Len(sat.y) = 100
            /\ sat.x[1] = DegC(0)
            /\ sat.x[100] = DegC(50)
            /\ \A i \in 1..99 :
                  /\ sat.x[i + 1] - sat.x[i] = sat.x[2] - sat.x[1]
                  /\ sat.x[i] < sat.x[i + 1]
                  /\ sat.y[i] < sat.y[i + 1]
            /\ \A i \in 1..100 :
                  sat.y[i] = calc_humidity_ratio(sat.x[i], 1000, 101325) * 1000

\* C7 witness: a chart is displayed.
C7_Witness ==
    /\ plotly_chart # None
    /\ Len(plotly_chart[1].data[1].y) = 100
    /\ pc = "idle"

\* C8: humidityRatio(T, 0, P) = 0 at every temperature and pressure.
C8_ZeroHumidityZeroRatio ==
    \A a \in calc_log : a.RH = 0 => a.W = 0

\* C8 witness: the ratio of dry air was computed at 100 degC and at -40 degC.
C8_Witness ==
    /\ \E a \in calc_log : a.RH = 0 /\ a.T_db = DegC(100) /\ a.W = 0
    /\ \E a \in calc_log : a.RH = 0 /\ a.T_db = DegC(-40) /\ a.P = 70000

C10_DownloadIsTheDisplayedChart ==
    download_button # None =>
        /\ pc = "idle"
        /\ Len(calls) = 1
        /\ page = <<"title", "file_uploader", "plotly_chart", "toggle",
                    "download_button">>
        /\ plotly_chart # None
        /\ plotly_chart = fig
        /\ download_button[1].data = to_html(plotly_chart[1])
        /\ download_button[1].file_name = "psychrometric_chart.html"
        /\ download_button[1].mime = "text/html"
        /\ toggle = Flag(session_state)
        /\ HasDesignZone(plotly_chart[1]) = toggle

\* C10 witness: the download is offered with the toggle on, after a rerun.
C10_Witness ==
    /\ download_button # None
    /\ toggle
    /\ runs = 2

====
